---- MODULE Spec2Model ----
(***************************************************************************)
(* rtlsim: fixed-point quantization (rtlsim/common.py, rtlsim/Quantize.py). *)
(*                                                                         *)
(* Floats.  A float is held as an integer number of Units: the value n     *)
(* stands for n / Unit.  Unit = 8 * 25 * Resolution, so hundredths (the    *)
(* docstring samples 1.23, -1.2, 34.1, ...) and quarters are multiples of  *)
(* Resolution, and so is every x * 2^F of them for F >= -1.  Binary64      *)
(* keeps numbers near zero far more finely than numbers near 2^W: a value  *)
(* of magnitude below Resolution is held as it is, a larger one only to a  *)
(* multiple of Resolution (fl).  The one operation of the code that rounds *)
(* is the `mod += divisor` step of the float remainder (float_mod); the    *)
(* scalings by powers of two, the re-centring subtraction, clip, floor,    *)
(* ceil, round and fix are exact in binary64 and are exact here.           *)
(* Codes (the integer-valued floats asBitsInt returns) are plain integers. *)
(***************************************************************************)
EXTENDS Integers, Sequences, FiniteSets, TLC

VARIABLES engine, op, arg, ret, err, buf

vars == <<engine, op, arg, ret, err, buf>>

\* ------------------------------------------------------------------ bounds
MaxW == 6       \* word widths 1..MaxW (and the invalid -1, 0)
MaxF == 2       \* fractional widths -1..MaxF
MaxX == 4       \* scalar inputs on the quarter grid in [-MaxX, MaxX]
MaxLen == 2     \* ndarray inputs of length 0..MaxLen

Resolution == 2 ^ 6

Unit == 8 * 25 * Resolution

\* A negative input too small to survive an addition to 2^W (such as -1e-20).
NegTiny == -(Resolution \div 32)

\* ------------------------------------------------------- common.py: FxpProps
WRAP == 0
SATURATE == 1
TRUNCATE == 0
AROUND == 1
FLOOR == 2
CEIL == 3
FIX == 4

Pow2(n) == 2 ^ n

Abs(n) == IF n < 0 THEN -n ELSE n

\* Rounding of a sum to binary64.
fl(v) ==
    IF Abs(v) < Resolution THEN v
    ELSE ((2 * v + Resolution) \div (2 * Resolution)) * Resolution

\* a % m on floats (Python float_rem, numpy remainder), m > 0: fmod(a, m), which
\* is exact and has the sign of a, and then `mod += m`, which rounds, when it
\* is negative.
float_mod(a, m) ==
    LET r == a % m
    IN  IF a < 0 /\ r # 0 THEN fl(r) ELSE r

\* Policy names are strings; a string is a sequence of characters.
LowerChar(c) ==
    CASE c = "W" -> "w"
      [] c = "C" -> "c"
      [] c = "S" -> "s"
      [] c = "A" -> "a"
      [] c = "T" -> "t"
      [] c = "F" -> "f"
      [] OTHER -> c

lower(s) == [i \in DOMAIN s |-> LowerChar(s[i])]

overflow_keys == { <<"w","r","a","p">>, <<"s","a","t","u","r","a","t","e">> }

overflow_dict(k) == IF k = <<"w","r","a","p">> THEN WRAP ELSE SATURATE

rounding_keys == { <<"t","r","u","n","c","a","t","e">>, <<"a","r","o","u","n","d">>,
                   <<"f","l","o","o","r">>, <<"c","e","i","l">>, <<"f","i","x">> }

rounding_dict(k) ==
    CASE k = <<"t","r","u","n","c","a","t","e">> -> TRUNCATE
      [] k = <<"a","r","o","u","n","d">> -> AROUND
      [] k = <<"f","l","o","o","r">> -> FLOOR
      [] k = <<"c","e","i","l">> -> CEIL
      [] k = <<"f","i","x">> -> FIX

vMinInt(S, W) == IF S THEN -Pow2(W - 1) ELSE 0

vMaxInt(S, W) == IF S THEN Pow2(W - 1) - 1 ELSE Pow2(W) - 1

vRangeInt(S, W) == vMaxInt(S, W) - vMinInt(S, W)

\* x * (2 ** n) and x / (2 ** n) on a real held in Units (or on a code).
shift_left_(x, n) == IF n >= 0 THEN x * Pow2(n) ELSE x \div Pow2(-n)

shift_right_(x, n) == IF n >= 0 THEN x \div Pow2(n) ELSE x * Pow2(-n)

\* code / (2 ** F) as a real in Units.
DivPow2(code, F) == shift_right_(code * Unit, F)

vMin(S, W, F) == DivPow2(vMinInt(S, W), F)

vMax(S, W, F) == DivPow2(vMaxInt(S, W), F)

vRange(S, W, F) == vMax(S, W, F) - vMin(S, W, F)

vPrecision(F) == DivPow2(1, F)

\* ------------------------------------------------------ values and inputs
None == [kind |-> "none"]

Scalar(v) == [kind |-> "scalar", v |-> v]

NdArray(s) == [kind |-> "ndarray", a |-> s]

StrArray(s) == [kind |-> "strarray", a |-> s]

Str(s) == [kind |-> "str", v |-> s]

NoEngine == [W |-> 0]

NoBuf == <<>>

\* The docstring samples 1.23, -1.2, 34.1, 0, 3.26, 1, -2.34 (hundredths).
Hundredth == Unit \div 100

Samples == { 123 * Hundredth, -120 * Hundredth, 3410 * Hundredth, 0,
             326 * Hundredth, 100 * Hundredth, -234 * Hundredth }

Grid == { k * (Unit \div 4) : k \in (-4 * MaxX)..(4 * MaxX) }

SeqElems == { -Unit, Unit, -120 * Hundredth, 3410 * Hundredth }

ScalarInputs == { Scalar(v) : v \in Grid \cup Samples \cup {NegTiny} }

ArrayInputs == { NdArray(s) : s \in UNION { [1..n -> SeqElems] : n \in 0..MaxLen } }

Inputs == ScalarInputs \cup ArrayInputs

\* The free functions are exercised on the docstring samples and the arrays.
FreeInputs == { Scalar(v) : v \in Samples \cup {NegTiny} } \cup ArrayInputs

Widths == (-1)..MaxW

FracBits == (-1)..MaxF

OverflowNames == overflow_keys \cup { <<"W","r","a","p">>, <<"c","l","i","p">> }

RoundingNames == rounding_keys \cup { <<"C","e","i","l">>, <<"n","e","a","r","e","s","t">> }

\* --------------------------------------------------- Quantize.py: Quantize
\* Quantize.__init__: the outcome of construction, an error or the engine.
Quantize_init(S, W, F, overflow, rounding) ==
    IF ~(W > 0) THEN
        [err |-> "AssertionError: Word bit width must be positive.", engine |-> NoEngine]
    ELSE IF overflow \notin overflow_keys THEN
        [err |-> "AssertionError: Overflow behavior must be one of", engine |-> NoEngine]
    ELSE IF rounding \notin rounding_keys THEN
        [err |-> "AssertionError: Rounding behavior must be one of", engine |-> NoEngine]
    ELSE
        [err |-> "none",
         engine |-> [S |-> S, W |-> W, F |-> F,
                     overflow |-> overflow_dict(lower(overflow)),
                     rounding |-> rounding_dict(lower(rounding)),
                     v_min |-> vMin(S, W, F),
                     v_max |-> vMax(S, W, F),
                     v_range |-> vRange(S, W, F),
                     v_precision |-> vPrecision(F),
                     v_min_int |-> vMinInt(S, W),
                     v_max_int |-> vMaxInt(S, W),
                     v_range_int |-> vRangeInt(S, W)]]

\* numpy on a real v held in Units; the result is an integer.
np_floor(v) == v \div Unit

np_ceil(v) == -((-v) \div Unit)

np_fix(v) == IF v >= 0 THEN np_floor(v) ELSE np_ceil(v)

np_round_away(v) ==
    IF v >= 0 THEN (2 * v + Unit) \div (2 * Unit) ELSE -((2 * (-v) + Unit) \div (2 * Unit))

\* numpy.round: to the nearest integer, an exact half to the even neighbour.
np_round(v) ==
    LET f == v \div Unit
        r == v % Unit
    IN  IF 2 * r < Unit THEN f
        ELSE IF 2 * r > Unit THEN f + 1
        ELSE IF f % 2 = 0 THEN f ELSE f + 1

np_clip_noupper(v, lo, hi) == IF v < lo THEN lo ELSE v

np_clip(v, lo, hi) == IF v < lo THEN lo ELSE IF v > hi THEN hi ELSE v

\* asBitsInt, overflow behavior: clipped_v (a real in Units) of raw_v.
clipped_v(q, raw_v) ==
    IF q.overflow = WRAP THEN
        LET c == float_mod(raw_v, Pow2(q.W) * Unit)
        IN  IF q.S /\ c > q.v_max_int * Unit THEN c - q.v_range_int * Unit ELSE c
    ELSE np_clip(raw_v, q.v_min_int * Unit, q.v_max_int * Unit)

\* asBitsInt, rounding behavior: rounded_v (an integer code) of clipped_v.
rounded_v(q, c) ==
    CASE q.rounding = TRUNCATE -> np_floor(c)
      [] q.rounding = AROUND -> np_round(c)
      [] q.rounding = FLOOR -> np_floor(c)
      [] q.rounding = CEIL -> np_ceil(c)
      [] q.rounding = FIX -> np_fix(c)

\* asBitsInt on one element.
asBitsInt1(q, x) == rounded_v(q, clipped_v(q, shift_left_(x, q.F)))

\* asBitsInt on a float or a numpy.ndarray (elementwise).
asBitsInt(q, x) ==
    IF x.kind = "scalar" THEN Scalar(asBitsInt1(q, x.v))
    ELSE NdArray([i \in DOMAIN x.a |-> asBitsInt1(q, x.a[i])])

\* quantize: rounded_v / (2 ** F), a real in Units.
quantize1(q, x) == DivPow2(asBitsInt1(q, x), q.F)

quantize(q, x) ==
    IF x.kind = "scalar" THEN Scalar(quantize1(q, x.v))
    ELSE NdArray([i \in DOMAIN x.a |-> quantize1(q, x.a[i])])

\* asBitsUInt: `rounded_v + v_range_int if rounded_v < 0 else rounded_v`.  The
\* condition is the truth value of `rounded_v < 0`: of the one comparison for a
\* float or a one-element array; ambiguous (ValueError) for an array of two or
\* more elements; for an empty array False with a deprecation warning in older
\* numpy releases and an error in newer ones.  The set of possible outcomes.
asBitsUInt(q, x) ==
    LET r == asBitsInt(q, x) IN
    IF x.kind = "scalar" THEN
        { [ret |-> Scalar(IF r.v < 0 THEN r.v + q.v_range_int ELSE r.v), err |-> "none"] }
    ELSE IF Len(r.a) >= 2 THEN
        { [ret |-> None, err |-> "ValueError"] }
    ELSE IF Len(r.a) = 1 THEN
        { [ret |-> NdArray(IF r.a[1] < 0
                           THEN [i \in DOMAIN r.a |-> r.a[i] + q.v_range_int]
                           ELSE r.a),
           err |-> "none"] }
    ELSE
        { [ret |-> r, err |-> "none"], [ret |-> None, err |-> "ValueError"] }

\* bin(n)[2:] for n > 0: the binary digits, most significant first.
RECURSIVE bin(_)
bin(n) == IF n <= 1 THEN << (IF n = 1 THEN "1" ELSE "0") >>
          ELSE Append(bin(n \div 2), IF n % 2 = 1 THEN "1" ELSE "0")

Fill(c, n) == [i \in 1..n |-> c]

Max(a, b) == IF a >= b THEN a ELSE b

\* numpy.binary_repr(num, width): the digits, and whether width is insufficient.
binary_repr(num, width) ==
    IF num = 0 THEN [s |-> Fill("0", width), insufficient |-> FALSE]
    ELSE IF num > 0 THEN
        LET binary == bin(num)
            binwidth == Len(binary)
            outwidth == Max(binwidth, width)
        IN  [s |-> Fill("0", outwidth - binwidth) \o binary,
             insufficient |-> width < binwidth]
    ELSE
        LET pw == Len(bin(-num))
            poswidth == IF Pow2(pw - 1) = -num THEN pw - 1 ELSE pw
            twocomp == Pow2(poswidth + 1) + num
            binary == bin(twocomp)
            binwidth == Len(binary)
            outwidth == Max(binwidth, width)
        IN  [s |-> Fill("1", outwidth - binwidth) \o binary,
             insufficient |-> width < binwidth]

\* asBits: the set of possible outcomes.  With an insufficient width
\* numpy.binary_repr returns the longer string (older releases, with a
\* deprecation warning) or raises ValueError (newer releases).
asBits(q, x) ==
    LET r == asBitsInt(q, x) IN
    IF x.kind = "scalar" THEN
        LET b == binary_repr(r.v, q.W) IN
        { [ret |-> Str(b.s), err |-> "none"] }
        \cup (IF b.insufficient THEN { [ret |-> None, err |-> "ValueError"] } ELSE {})
    ELSE
        { [ret |-> StrArray([i \in DOMAIN r.a |-> binary_repr(r.a[i], q.W).s]),
           err |-> "none"] }
        \cup (IF \E i \in DOMAIN r.a : binary_repr(r.a[i], q.W).insufficient
              THEN { [ret |-> None, err |-> "ValueError"] } ELSE {})

\* quantizeSelf: the caller's buffer after the call, and the error.
quantizeSelf_rebind(q, x) ==
    IF x.kind # "ndarray" THEN [buf |-> NoBuf, err |-> "TypeError"]
    ELSE [buf |-> x.a, err |-> "none"]

quantizeSelf(q, x) ==
    IF x.kind # "ndarray" THEN [buf |-> NoBuf, err |-> "TypeError"]
    ELSE [buf |-> quantize(q, x).a, err |-> "none"]

\* ------------------------------------------------------------- the machine
\* engine: the constructed Quantize object (NoEngine before construction and
\* after a failed one); op, arg, ret, err: the call last made, its argument,
\* return value and exception; buf: the caller's ndarray after that call.
Init ==
    /\ engine = NoEngine
    /\ op = "idle"
    /\ arg = None
    /\ ret = None
    /\ err = "none"
    /\ buf = NoBuf

BufOf(x) == IF x.kind = "ndarray" THEN x.a ELSE NoBuf

Construct ==
    /\ op = "idle"
    /\ engine = NoEngine
    /\ \E S \in BOOLEAN, W \in Widths, F \in FracBits,
          overflow \in OverflowNames, rounding \in RoundingNames :
        /\ LET o == Quantize_init(S, W, F, overflow, rounding) IN
            /\ engine' = o.engine
            /\ err' = o.err
        /\ arg' = [kind |-> "params", S |-> S, W |-> W, F |-> F,
                   overflow |-> overflow, rounding |-> rounding]
    /\ op' = "init"
    /\ ret' = None
    /\ buf' = NoBuf

CallAsBitsInt ==
    /\ op = "idle"
    /\ engine # NoEngine
    /\ \E x \in Inputs :
        /\ arg' = x
        /\ ret' = asBitsInt(engine, x)
        /\ buf' = BufOf(x)
    /\ op' = "asBitsInt"
    /\ err' = "none"
    /\ UNCHANGED engine

CallAsBitsUInt ==
    /\ op = "idle"
    /\ engine # NoEngine
    /\ \E x \in Inputs :
        /\ arg' = x
        /\ \E o \in asBitsUInt(engine, x) :
            /\ ret' = o.ret
            /\ err' = o.err
        /\ buf' = BufOf(x)
    /\ op' = "asBitsUInt"
    /\ UNCHANGED engine

CallAsBits ==
    /\ op = "idle"
    /\ engine # NoEngine
    /\ \E x \in Inputs :
        /\ arg' = x
        /\ \E o \in asBits(engine, x) :
            /\ ret' = o.ret
            /\ err' = o.err
        /\ buf' = BufOf(x)
    /\ op' = "asBits"
    /\ UNCHANGED engine

CallQuantize ==
    /\ op = "idle"
    /\ engine # NoEngine
    /\ \E x \in Inputs :
        /\ arg' = x
        /\ ret' = quantize(engine, x)
        /\ buf' = BufOf(x)
    /\ op' = "quantize"
    /\ err' = "none"
    /\ UNCHANGED engine

CallQuantizeSelf ==
    /\ op = "idle"
    /\ engine # NoEngine
    /\ \E x \in Inputs :
        /\ arg' = x
        /\ LET o == quantizeSelf(engine, x) IN
            /\ buf' = o.buf
            /\ err' = o.err
    /\ op' = "quantizeSelf"
    /\ ret' = None
    /\ UNCHANGED engine

\* The free functions: Quantize(S, W, F, overflow, rounding).quantize(x) and
\* .quantizeSelf(x) on a transient engine.
FreeArg(x, S, W, F, overflow, rounding) ==
    [kind |-> "free", x |-> x, S |-> S, W |-> W, F |-> F,
     overflow |-> overflow, rounding |-> rounding]

FreeQuantize ==
    /\ op = "idle"
    /\ engine = NoEngine
    /\ \E x \in FreeInputs, S \in BOOLEAN, W \in Widths, F \in FracBits,
          overflow \in OverflowNames, rounding \in RoundingNames :
        /\ arg' = FreeArg(x, S, W, F, overflow, rounding)
        /\ LET o == Quantize_init(S, W, F, overflow, rounding) IN
            /\ err' = o.err
            /\ ret' = IF o.err = "none" THEN quantize(o.engine, x) ELSE None
        /\ buf' = BufOf(x)
    /\ op' = "free_quantize"
    /\ UNCHANGED engine

FreeQuantizeSelf ==
    /\ op = "idle"
    /\ engine = NoEngine
    /\ \E x \in FreeInputs, S \in BOOLEAN, W \in Widths, F \in FracBits,
          overflow \in OverflowNames, rounding \in RoundingNames :
        /\ arg' = FreeArg(x, S, W, F, overflow, rounding)
        /\ LET o == Quantize_init(S, W, F, overflow, rounding) IN
            IF o.err = "none"
            THEN LET s == quantizeSelf(o.engine, x) IN
                    /\ err' = s.err
                    /\ buf' = s.buf
            ELSE /\ err' = o.err
                 /\ buf' = BufOf(x)
    /\ op' = "free_quantizeSelf"
    /\ ret' = None
    /\ UNCHANGED engine

\* The caller drops the last call's argument and result before its next call.
Discard ==
    /\ op # "idle"
    /\ op' = "idle"
    /\ arg' = None
    /\ ret' = None
    /\ err' = "none"
    /\ buf' = NoBuf
    /\ UNCHANGED engine

Next ==
    \/ Construct
    \/ CallAsBitsInt
    \/ CallAsBitsUInt
    \/ CallAsBits
    \/ CallQuantize
    \/ CallQuantizeSelf
    \/ FreeQuantize
    \/ FreeQuantizeSelf
    \/ Discard

Spec == Init /\ [][Next]_vars

\* ------------------------------------------------------------ properties
\* The engine and the sample argument of the call last made (a method call on
\* the constructed engine, or a free function on its transient engine).
IsFree == op \in {"free_quantize", "free_quantizeSelf"}

CallEngine ==
    IF IsFree
    THEN Quantize_init(arg.S, arg.W, arg.F, arg.overflow, arg.rounding).engine
    ELSE engine

CallX == IF IsFree THEN arg.x ELSE arg

Elements(t) == IF t.kind \in {"scalar", "str"} THEN << t.v >> ELSE t.a

IsBits(s, w) == Len(s) = w /\ \A i \in DOMAIN s : s[i] \in {"0", "1"}

RECURSIVE BitsValue(_)
BitsValue(s) ==
    IF Len(s) = 0 THEN 0
    ELSE 2 * BitsValue(SubSeq(s, 1, Len(s) - 1)) + (IF s[Len(s)] = "1" THEN 1 ELSE 0)

WrapName == <<"w","r","a","p">>

SaturateName == <<"s","a","t","u","r","a","t","e">>

TruncateName == <<"t","r","u","n","c","a","t","e">>

\* The engine Quantize(False, 6, 2): unsigned, Wrap, Truncate.
Q_u_6_2 == Quantize_init(FALSE, 6, 2, WrapName, TruncateName).engine

\* C1: asBits returns, for every format, policy and input, a string of exactly
\* W characters, each '0' or '1' (for an array: every element is such a string).
C1_BitStringWidth ==
    op = "asBits" =>
        /\ err = "none"
        /\ IF arg.kind = "scalar" THEN IsBits(ret.v, engine.W)
           ELSE /\ Len(ret.a) = Len(arg.a)
                /\ \A i \in DOMAIN ret.a : IsBits(ret.a[i], engine.W)

\* C2: quantize is idempotent: quantize applied to a value quantize returned
\* gives that value back.
C2_QuantizeIdempotent ==
    op = "quantize" => quantize(engine, ret) = ret

\* C3: under Wrap, asBitsUInt of a scalar is a code c with 0 <= c < 2^W.
C3_WrapUnsignedCodeInRange ==
    (op = "asBitsUInt" /\ engine.overflow = WRAP /\ arg.kind = "scalar") =>
        /\ err = "none"
        /\ 0 <= ret.v
        /\ ret.v < Pow2(engine.W)

\* C4: under Saturate, minValue <= quantize(x) <= maxValue and
\* minInt <= asBitsInt(x) <= maxInt; an input below minValue yields minValue,
\* one above maxValue yields maxValue; for unsigned (6,2) the inputs -1.2 and
\* 34.1 give 0 and 15.75.
C4_SaturateBounded ==
    (op \in {"quantize", "free_quantize", "asBitsInt"} /\ err = "none"
        /\ CallEngine.overflow = SATURATE) =>
        LET q == CallEngine
            x == Elements(CallX)
            r == Elements(ret)
        IN  /\ Len(r) = Len(x)
            /\ \A i \in DOMAIN x :
                IF op = "asBitsInt"
                THEN /\ q.v_min_int <= r[i]
                     /\ r[i] <= q.v_max_int
                     /\ (x[i] < q.v_min => r[i] = q.v_min_int)
                     /\ (x[i] > q.v_max => r[i] = q.v_max_int)
                ELSE /\ q.v_min <= r[i]
                     /\ r[i] <= q.v_max
                     /\ (x[i] < q.v_min => r[i] = q.v_min)
                     /\ (x[i] > q.v_max => r[i] = q.v_max)
                     /\ (~q.S /\ q.W = 6 /\ q.F = 2 /\ x[i] = -120 * Hundredth
                            => r[i] = 0)
                     /\ (~q.S /\ q.W = 6 /\ q.F = 2 /\ x[i] = 3410 * Hundredth
                            => r[i] = 1575 * Hundredth)

\* C4 witness: rtlsim.quantize(34.1, False, 6, 2, overflow='saturate') has
\* returned 15.75.
C4_Witness ==
    /\ op = "free_quantize"
    /\ arg = FreeArg(Scalar(3410 * Hundredth), FALSE, 6, 2, SaturateName, TruncateName)
    /\ err = "none"
    /\ ret = Scalar(1575 * Hundredth)

\* C5: asBitsUInt maps an array elementwise: the call succeeds and element i
\* of the result is asBitsInt(x[i]) + 2^W when asBitsInt(x[i]) < 0 and
\* asBitsInt(x[i]) otherwise.
C5_UnsignedCodeElementwise ==
    (op = "asBitsUInt" /\ arg.kind = "ndarray") =>
        /\ err = "none"
        /\ ret.kind = "ndarray"
        /\ Len(ret.a) = Len(arg.a)
        /\ \A i \in DOMAIN arg.a :
            LET c == asBitsInt1(engine, arg.a[i])
            IN  ret.a[i] = IF c < 0 THEN c + Pow2(engine.W) ELSE c

\* C6: construction fails with the width error whenever W <= 0, with a policy
\* error whenever a policy name is not recognized case-insensitively, and
\* otherwise succeeds with the engine of the lower-cased names; on failure no
\* engine exists.
C6_ConstructValidates ==
    op = "init" =>
        IF arg.W <= 0 THEN
            /\ err = "AssertionError: Word bit width must be positive."
            /\ engine = NoEngine
        ELSE IF lower(arg.overflow) \notin overflow_keys THEN
            /\ err = "AssertionError: Overflow behavior must be one of"
            /\ engine = NoEngine
        ELSE IF lower(arg.rounding) \notin rounding_keys THEN
            /\ err = "AssertionError: Rounding behavior must be one of"
            /\ engine = NoEngine
        ELSE
            /\ err = "none"
            /\ engine = Quantize_init(arg.S, arg.W, arg.F,
                                      lower(arg.overflow), lower(arg.rounding)).engine
            /\ engine # NoEngine

\* C7: quantizeSelf (method and free function) on a scalar fails with
\* TypeError and changes nothing; on an ndarray it returns None and leaves the
\* buffer with the same length and element i equal to quantize(old element i).
C7_QuantizeSelfPost ==
    (op \in {"quantizeSelf", "free_quantizeSelf"} /\ CallEngine # NoEngine) =>
        /\ ret = None
        /\ IF CallX.kind # "ndarray"
           THEN /\ err = "TypeError"
                /\ buf = NoBuf
           ELSE /\ err = "none"
                /\ Len(buf) = Len(CallX.a)
                /\ \A i \in DOMAIN buf : buf[i] = quantize1(CallEngine, CallX.a[i])

\* C7, continued: a quantizeSelf call leaves the engine (format, policies and
\* cached bounds) as it was.
C7_EngineUnchanged ==
    (op' \in {"quantizeSelf", "free_quantizeSelf"}) => engine' = engine

\* C7: both parts, in every state and over every step.
C7_QuantizeSelf == [](C7_QuantizeSelfPost) /\ [][C7_EngineUnchanged]_vars

\* C7 witness: Q_u_6_2.quantizeSelf on the buffer [-1.2, 34.1] has left it
\* [14.75, 2.0].
C7_Witness ==
    /\ op = "quantizeSelf"
    /\ engine = Q_u_6_2
    /\ arg = NdArray(<< -120 * Hundredth, 3410 * Hundredth >>)
    /\ err = "none"
    /\ buf = << 1475 * Hundredth, 200 * Hundredth >>

\* floor(x * 2^F) mod 2^W, the code C8 states for an unsigned Wrap + Truncate
\* engine q and an input x.
FloorModCode(q, x) == (shift_left_(x, q.F) \div Unit) % Pow2(q.W)

\* C8: for an unsigned format under Wrap + Truncate, asBitsInt(x) is
\* floor(x * 2^F) mod 2^W, quantize(x) is that code divided by 2^F and asBits(x)
\* is the W-digit binary rendering of that code; for (False, 6, 2) the inputs
\* -1.2 and 34.1 give codes 59 and 8, values 14.75 and 2.0, bit strings
\* '111011' and '001000'.
C8_UnsignedWrapTruncate ==
    (op \in {"asBitsInt", "quantize", "asBits"} /\ ~engine.S
        /\ engine.overflow = WRAP /\ engine.rounding = TRUNCATE) =>
        LET x == Elements(arg) IN
        /\ err = "none"
        /\ Len(Elements(ret)) = Len(x)
        /\ \A i \in DOMAIN x :
            LET r == Elements(ret)[i]
                c == FloorModCode(engine, x[i])
            IN  CASE op = "asBitsInt" -> r = c
                  [] op = "quantize" -> r = DivPow2(c, engine.F)
                  [] op = "asBits" -> IsBits(r, engine.W) /\ BitsValue(r) = c
        /\ (engine = Q_u_6_2 /\ arg = Scalar(-120 * Hundredth)) =>
            CASE op = "asBitsInt" -> ret = Scalar(59)
              [] op = "quantize" -> ret = Scalar(1475 * Hundredth)
              [] op = "asBits" -> ret = Str(<<"1","1","1","0","1","1">>)
        /\ (engine = Q_u_6_2 /\ arg = Scalar(3410 * Hundredth)) =>
            CASE op = "asBitsInt" -> ret = Scalar(8)
              [] op = "quantize" -> ret = Scalar(200 * Hundredth)
              [] op = "asBits" -> ret = Str(<<"0","0","1","0","0","0">>)

\* The same statement on the inputs whose remainder binary64 computes without
\* rounding (every input of the model but NegTiny); it holds.
UnsignedWrapTruncate_NoRounding ==
    (arg.kind = "scalar" /\ arg.v = NegTiny) \/ C8_UnsignedWrapTruncate

\* C9: under Wrap with a signed format, asBitsInt rounds r when r <= maxInt and
\* r - 2^W when r > maxInt, where r = (x * 2^F) mod 2^W; so an x whose scaled
\* value is an integer k with minInt <= k <= maxInt has asBitsInt(x) = k.
C9_SignedWrapRecentre ==
    (op = "asBitsInt" /\ arg.kind = "scalar" /\ engine.S /\ engine.overflow = WRAP) =>
        LET raw == shift_left_(arg.v, engine.F)
            r == raw % (Pow2(engine.W) * Unit)
            v == IF r > engine.v_max_int * Unit THEN r - Pow2(engine.W) * Unit ELSE r
        IN  /\ ret.v = rounded_v(engine, v)
            /\ (raw % Unit = 0 /\ engine.v_min_int * Unit <= raw
                    /\ raw <= engine.v_max_int * Unit)
                => ret.v * Unit = raw

\* The overflow-handled scaled value of the scalar call last made, in Units.
HandledV == clipped_v(engine, shift_left_(arg.v, engine.F))

\* C10, as amended: with the rounding policy 'around', asBitsInt rounds the
\* overflow-handled scaled value v to the nearest integer, an exact half
\* n + 1/2 to the even one of its two neighbours (0.5 -> 0, 1.5 -> 2,
\* 2.5 -> 2, -2.5 -> -2).
C10_AroundHalfToEven ==
    (op = "asBitsInt" /\ arg.kind = "scalar" /\ engine.rounding = AROUND) =>
        LET d == Abs(ret.v * Unit - HandledV)
        IN  /\ 2 * d <= Unit
            /\ (2 * d = Unit => ret.v % 2 = 0)

\* C10, as claimed: with the rounding policy 'around', asBitsInt rounds v to
\* the nearest integer, an exact half away from zero (0.5 -> 1, 2.5 -> 3,
\* -2.5 -> -3).
C10_AroundHalfAwayFromZero ==
    (op = "asBitsInt" /\ arg.kind = "scalar" /\ engine.rounding = AROUND) =>
        LET d == Abs(ret.v * Unit - HandledV)
        IN  /\ 2 * d <= Unit
            /\ (2 * d = Unit => Abs(ret.v * Unit) > Abs(HandledV))

\* C10 witness: Quantize(False, 6, 0, rounding='around').asBitsInt(2.5) has
\* returned 2.
C10_Witness ==
    /\ op = "asBitsInt"
    /\ engine = Quantize_init(FALSE, 6, 0, WrapName, <<"a","r","o","u","n","d">>).engine
    /\ arg = Scalar(250 * Hundredth)
    /\ ret = Scalar(2)

====
